---- MODULE Spec2Model ----
(***************************************************************************)
(* Markdown-translator-go: the concurrent file-processing pipeline.        *)
(*                                                                         *)
(* processor.ProcessFiles starts cfg.Concurrency worker goroutines, sends  *)
(* one TranslationTask per discovered file into a buffered channel, closes *)
(* the channel and waits on a sync.WaitGroup.  Each worker loops over the  *)
(* channel and, per task, runs skip check -> read -> (dry run) ->          *)
(* Translate -> ExtractTranslation -> WriteFile, adding 1 to exactly one   *)
(* atomic counter of the shared Stats.                                     *)
(*                                                                         *)
(* Every system call and every channel / WaitGroup / atomic operation is   *)
(* one atomic step; the purely local code that follows it in the worker    *)
(* (flag tests, ExtractTranslation, the counter's atomic Add before the    *)
(* `continue`) belongs to the same step.  Outcomes of the environment (can *)
(* the source be read, what does the backend answer, does the write        *)
(* succeed) are chosen when the step runs and recorded in oc.              *)
(*                                                                         *)
(* Text is a sequence of tokens: the two markers "<translate>" and         *)
(* "</translate>", the white-space tokens " " and "\n", and words.         *)
(***************************************************************************)
EXTENDS Integers, Sequences, FiniteSets, TLC

\* ---------------------------------------------------------------- bounds
MaxFiles == 2
MaxWorkers == 2
MaxText == 2

\* ----------------------------------------------------------------- paths
\* Relative paths discovery can return, in walk order; pairwise distinct.
AllPaths == <<"a.md", "sub/b.md", "sub/c.md", "d.md">>

PathSet == {AllPaths[i] : i \in 1..MaxFiles}

\* filepath.Dir of the target path, relative to the target root.
Dir(p) == IF p \in {"sub/b.md", "sub/c.md"} THEN "sub" ELSE "."

AllDirs == {".", "sub"}

Workers == 1..MaxWorkers

\* ------------------------------------------------------------------ text
OpenTag == "<translate>"
CloseTag == "</translate>"
Space == {" ", "\n"}

\* The content of the source file at a path.
SrcContent(p) == <<"#", p>>

\* The content of a target file left by an earlier run or by the user.
OldContent == <<"old">>

\* The tokens texts are made of here, and the texts of at most n tokens.
Alphabet == {OpenTag, CloseTag, " ", "x"}
Texts(n) == UNION {[1..k -> Alphabet] : k \in 0..n}

\* strings.TrimSpace
RECURSIVE TrimLeft(_)
TrimLeft(s) == IF s # <<>> /\ Head(s) \in Space THEN TrimLeft(Tail(s)) ELSE s

RECURSIVE TrimRight(_)
TrimRight(s) ==
    IF s # <<>> /\ s[Len(s)] \in Space THEN TrimRight(SubSeq(s, 1, Len(s) - 1)) ELSE s

TrimSpace(s) == TrimRight(TrimLeft(s))

\* Index of the first position >= from holding tok, or 0.
RECURSIVE IndexFrom(_, _, _)
IndexFrom(s, tok, from) ==
    IF from > Len(s) THEN 0
    ELSE IF s[from] = tok THEN from
    ELSE IndexFrom(s, tok, from + 1)

\* Index of the last position holding tok, or 0.
LastIndex(s, tok) ==
    IF \E k \in 1..Len(s) : s[k] = tok
    THEN CHOOSE k \in 1..Len(s) : s[k] = tok /\ \A m \in (k + 1)..Len(s) : s[m] # tok
    ELSE 0

\* Faulty variant of FindStringSubmatch: the greedy pattern (.*), which runs
\* to the last closing marker.
FindStringSubmatchGreedy(s) ==
    LET i == IndexFrom(s, OpenTag, 1)
        j == LastIndex(s, CloseTag)
    IN  IF i = 0 \/ j < i THEN <<>>
        ELSE <<SubSeq(s, i, j), SubSeq(s, i + 1, j - 1)>>

\* Faulty variant of FindStringSubmatch: the pattern is anchored at both ends
\* of the input, ^<translate>(.*)</translate>$.
FindStringSubmatchAnchored(s) ==
    IF Len(s) >= 2 /\ s[1] = OpenTag /\ s[Len(s)] = CloseTag
    THEN <<s, SubSeq(s, 2, Len(s) - 1)>>
    ELSE <<>>

\* Faulty variant of FindStringSubmatch: the last span is taken, from the last
\* opening marker that has a closing marker after it.
FindStringSubmatchLast(s) ==
    LET j == LastIndex(s, CloseTag)
        before == IF j = 0 THEN <<>> ELSE SubSeq(s, 1, j - 1)
        i == LastIndex(before, OpenTag)
        k == IF i = 0 THEN 0 ELSE IndexFrom(s, CloseTag, i + 1)
    IN  IF k = 0 THEN <<>>
        ELSE <<SubSeq(s, i, k), SubSeq(s, i + 1, k - 1)>>

\* translateTagRegex.FindStringSubmatch: (?s)<translate>(.*?)</translate>,
\* leftmost match, non-greedy group.  <<>> when there is no match, else
\* <<whole match, group 1>>.
FindStringSubmatch(s) ==
    LET i == IndexFrom(s, OpenTag, 1)
        j == IF i = 0 THEN 0 ELSE IndexFrom(s, CloseTag, i + 1)
    IN  IF j = 0 THEN <<>>
        ELSE <<SubSeq(s, i, j), SubSeq(s, i + 1, j - 1)>>

\* Faulty variant of ExtractTranslation: output without markers is passed on.
ExtractTranslationPassThrough(rawLLMOutput) ==
    LET matches == FindStringSubmatch(rawLLMOutput)
    IN  IF Len(matches) < 2
        THEN [err |-> FALSE, text |-> TrimSpace(rawLLMOutput)]
        ELSE [err |-> FALSE, text |-> TrimSpace(matches[2])]

\* utils.ExtractTranslation: [err, text].
ExtractTranslation(rawLLMOutput) ==
    LET matches == FindStringSubmatch(rawLLMOutput)
        retry == FindStringSubmatch(TrimSpace(rawLLMOutput))
    IN  IF Len(matches) < 2
        THEN IF Len(retry) < 2
             THEN [err |-> TRUE, text |-> <<>>]
             ELSE [err |-> FALSE, text |-> TrimSpace(retry[2])]
        ELSE [err |-> FALSE, text |-> TrimSpace(matches[2])]

\* What a backend can answer to Translate(ctx, content): an error, a timeout
\* of the 120 s context, or raw text with or without the markers.
BackendAnswers(markdownContent) ==
    { [kind |-> "err", raw |-> <<>>],
      [kind |-> "timeout", raw |-> <<>>],
      [kind |-> "ok", raw |-> <<"Sure:", "\n", OpenTag, "\n">> \o markdownContent
                                 \o <<" ", CloseTag, "\n">>],
      [kind |-> "ok", raw |-> markdownContent] }

NoAnswer == [kind |-> "?", raw |-> <<>>]

\* ------------------------------------------------------------ file system
Absent == [st |-> "absent", data |-> <<>>]
StatErr == [st |-> "staterr", data |-> <<>>]
File(data) == [st |-> "file", data |-> data]

\* ----------------------------------------------------------------- state
VARIABLES
    cfg,        \* config.Config: Overwrite, DryRun, Concurrency
    trans,      \* the translator.Translator handed to ProcessFiles: "nil" or "backend"
    files,      \* the files argument of ProcessFiles
    mainPC,     \* position of main: in ProcessFiles "spawn", "send", "wait";
                \* then "returned", "summarized"; at the end "exited" or "killed"
    report,     \* <<the Stats main printed in its summary>>, or <<>>
    started,    \* number of workers started so far (loop variable i)
    sent,       \* number of tasks sent so far
    tasks,      \* buffer of the tasks channel
    closed,     \* whether the tasks channel is closed
    wg,         \* sync.WaitGroup counter
    pc,         \* position of each worker
    task,       \* the task each worker holds
    held,       \* each worker's locals: content read, then translatedContent
    stats,      \* Stats
    tgt,        \* the file at each target path
    dirs,       \* the directories that exist under (and including) the target root
    tgt0,       \* tgt when ProcessFiles was called
    dirs0,      \* dirs when ProcessFiles was called
    oc,         \* per path: the outcomes the environment gave to its steps
    trace,      \* per path: the steps taken for it, in order
    first,      \* <<the Stats of the previous run over the same directories>>, or <<>>
    exit,       \* <<the exit status of the process>>, or <<>> while it runs
    closes,     \* number of calls of the translator's Close
    arg,        \* the arguments of a function called on its own, or <<>>
    ret         \* <<what that call returned>>, or <<>>

vars == <<cfg, trans, files, mainPC, report, started, sent, tasks, closed, wg, pc, task,
          held, stats, tgt, dirs, tgt0, dirs0, oc, trace, first, exit, closes, arg, ret>>

main == <<mainPC, report, started, sent, closed>>
env == <<cfg, trans, files, tgt0, dirs0, first>>
proc == <<exit, closes>>
call == <<arg, ret>>

NoOutcome == [read |-> "?", backend |-> NoAnswer, write |-> "?"]

Counters == {"Processed", "Skipped", "Failed", "DryRunHits"}

\* ------------------------------------------------------------------ Init
\* The directories the files of t need.
Needed(t) == {Dir(p) : p \in {q \in PathSet : t[q].st = "file"}}

ConsistentDirs(t, dry) ==
    { D \in SUBSET AllDirs :
        /\ Needed(t) \subseteq D
        /\ ("sub" \in D => "." \in D)
        \* config.LoadConfig creates the target root unless DryRun
        /\ (~dry => "." \in D) }

Start ==
    /\ cfg \in [Overwrite : BOOLEAN, DryRun : BOOLEAN, Concurrency : 1..MaxWorkers]
    /\ trans \in {"nil", "backend"}
    /\ \E n \in 0..MaxFiles : files = SubSeq(AllPaths, 1, n)
    /\ tgt \in [PathSet -> {Absent, StatErr, File(OldContent)}]
    /\ \A p \in PathSet : (\A i \in 1..Len(files) : files[i] # p) => tgt[p] = Absent
    /\ dirs \in ConsistentDirs(tgt, cfg.DryRun)
    /\ tgt0 = tgt
    /\ dirs0 = dirs
    /\ mainPC = "spawn"
    /\ report = <<>>
    /\ started = 0
    /\ sent = 0
    /\ tasks = <<>>
    /\ closed = FALSE
    /\ wg = 0
    /\ pc = [w \in Workers |-> "unborn"]
    /\ task = [w \in Workers |-> ""]
    /\ held = [w \in Workers |-> <<>>]
    /\ stats = [TotalFiles |-> Len(files), Processed |-> 0, Skipped |-> 0,
                Failed |-> 0, DryRunHits |-> 0]
    /\ oc = [p \in PathSet |-> NoOutcome]
    /\ trace = [p \in PathSet |-> <<>>]
    /\ first = <<>>
    /\ exit = <<>>
    /\ closes = 0

\* ProcessFiles is called; no function is called on its own.
Init ==
    /\ Start
    /\ arg = <<>>
    /\ ret = <<>>

\* --------------------------------------------------------------- helpers
\* Faulty variant of Add: counting a failure takes a Processed back.
AddTakesBack(s, counter) ==
    [s EXCEPT ![counter] = @ + 1,
              !.Processed = IF counter = "Failed" /\ @ > 0 THEN @ - 1 ELSE @]

\* Faulty variant of Add: a plain read-modify-write in which an increment is lost
\* once another one has been stored.
AddLossy(s, counter) == [s EXCEPT ![counter] = IF @ >= 1 THEN @ ELSE @ + 1]

\* Faulty variant of Add: a dry-run hit is also counted as Processed.
AddAlsoProcessed(s, counter) ==
    [s EXCEPT ![counter] = @ + 1,
              !.Processed = IF counter = "DryRunHits" THEN @ + 1 ELSE @]

\* atomic.Int32.Add(1) on one counter of Stats.
Add(s, counter) == [s EXCEPT ![counter] = @ + 1]

\* Faulty variant of Finish: a failed task makes the worker leave its loop.
FinishOrStop(w, p, steps, counter) ==
    /\ stats' = Add(stats, counter)
    /\ trace' = [trace EXCEPT ![p] = @ \o steps \o <<counter>>]
    /\ pc' = [pc EXCEPT ![w] = IF counter = "Failed" THEN "exited" ELSE "recv"]
    /\ task' = [task EXCEPT ![w] = ""]
    /\ held' = [held EXCEPT ![w] = <<>>]

\* End of one loop iteration of worker w on path p: the steps done are
\* appended to the trace, `counter` is incremented and the worker is back
\* at the channel receive.
Finish(w, p, steps, counter) ==
    /\ stats' = Add(stats, counter)
    /\ trace' = [trace EXCEPT ![p] = @ \o steps \o <<counter>>]
    /\ pc' = [pc EXCEPT ![w] = "recv"]
    /\ task' = [task EXCEPT ![w] = ""]
    /\ held' = [held EXCEPT ![w] = <<>>]

\* Worker w goes on to position `to` holding `data`.
Goto(w, p, steps, to, data) ==
    /\ trace' = [trace EXCEPT ![p] = @ \o steps]
    /\ pc' = [pc EXCEPT ![w] = to]
    /\ held' = [held EXCEPT ![w] = data]
    /\ UNCHANGED <<stats, task>>

\* ------------------------------------------------------------ ProcessFiles
\* Faulty variant of LoopStarts: the loop runs once more (i <= Concurrency).
LoopStartsOneMore(i, c) == i <= c.Concurrency

\* i < cfg.Concurrency: whether the start loop runs another iteration.
LoopStarts(i, c) == i < c.Concurrency

\* for i := 0; i < cfg.Concurrency; i++ { wg.Add(1); go worker(i+1, ...) }
Spawn ==
    /\ mainPC = "spawn"
    /\ LoopStarts(started, cfg)
    /\ started' = started + 1
    /\ wg' = wg + 1
    /\ pc' = [pc EXCEPT ![started + 1] = "recv"]
    /\ UNCHANGED <<env, proc, call, mainPC, report, sent, tasks, closed, task, held, stats, tgt, dirs, oc, trace>>

SpawnDone ==
    /\ mainPC = "spawn"
    /\ ~LoopStarts(started, cfg)
    /\ mainPC' = "send"
    /\ UNCHANGED <<env, proc, call, report, started, sent, tasks, closed, wg, pc, task, held, stats,
                   tgt, dirs, oc, trace>>

\* Faulty variant of NextTask: every iteration sends the first file.
NextTaskStuck(fs, n) == fs[1]

\* for _, relPath := range files: the task of the iteration after n sends.
NextTask(fs, n) == fs[n + 1]

\* Faulty variant of Capacity: a channel with a buffer of one task.
CapacityOne(fs) == 1

\* tasks := make(chan TranslationTask, numFiles): the capacity of the channel.
Capacity(fs) == Len(fs)

\* tasks <- TranslationTask{RelativePath: relPath}; blocks while the buffer is full
Send ==
    /\ mainPC = "send"
    /\ sent < Len(files)
    /\ Len(tasks) < Capacity(files)
    /\ tasks' = Append(tasks, NextTask(files, sent))
    /\ sent' = sent + 1
    /\ UNCHANGED <<env, proc, call, mainPC, report, started, closed, wg, pc, task, held, stats, tgt,
                   dirs, oc, trace>>

\* Faulty variant of Close: the channel is left open after the last send.
CloseForgotten ==
    /\ mainPC = "send"
    /\ sent = Len(files)
    /\ mainPC' = "wait"
    /\ UNCHANGED <<env, proc, call, report, started, sent, tasks, closed, wg, pc, task, held, stats,
                   tgt, dirs, oc, trace>>

\* close(tasks)
Close ==
    /\ mainPC = "send"
    /\ sent = Len(files)
    /\ closed' = TRUE
    /\ mainPC' = "wait"
    /\ UNCHANGED <<env, proc, call, report, started, sent, tasks, wg, pc, task, held, stats, tgt, dirs, oc, trace>>

\* Faulty variant of WaitReturns: ProcessFiles does not wait for the workers.
WaitReturnsAtOnce(n) == TRUE

\* wg.Wait() returns when the WaitGroup counter n is zero.
WaitReturns(n) == n = 0

\* wg.Wait(); return stats
Wait ==
    /\ mainPC = "wait"
    /\ WaitReturns(wg)
    /\ mainPC' = "returned"
    /\ UNCHANGED <<env, proc, call, report, started, sent, tasks, closed, wg, pc, task, held, stats,
                   tgt, dirs, oc, trace>>

\* main: the summary printed from the Stats ProcessFiles returned.
Summary ==
    /\ mainPC = "returned"
    /\ mainPC' = "summarized"
    /\ report' = <<stats>>
    /\ UNCHANGED <<env, proc, call, started, sent, tasks, closed, wg, pc, task, held, stats,
                   tgt, dirs, oc, trace>>

\* ----------------------------------------------------------------- worker
\* Faulty variant of AfterRecv: the skip check runs in dry-run mode too.
AfterRecvChecksInDryRun(c) == IF ~c.Overwrite THEN "skipcheck" ELSE "read"

\* Faulty variant of AfterRecv: the source is read before the skip check.
AfterRecvReadsFirst(c) == "read"

\* Where a worker that received a task makes its first system call: the
\* skip check's os.Stat runs only when neither Overwrite nor DryRun is set.
AfterRecv(c) == IF ~c.Overwrite /\ ~c.DryRun THEN "skipcheck" ELSE "read"

\* for task := range tasks: a task is received
Recv(w) ==
    /\ pc[w] = "recv"
    /\ tasks # <<>>
    /\ tasks' = Tail(tasks)
    /\ task' = [task EXCEPT ![w] = Head(tasks)]
    /\ pc' = [pc EXCEPT ![w] = AfterRecv(cfg)]
    /\ trace' = [trace EXCEPT ![Head(tasks)] = Append(@, "recv")]
    /\ UNCHANGED <<env, proc, call, main, wg, held, stats, tgt, dirs, oc>>

\* for task := range tasks: the channel is closed and drained; defer wg.Done()
Exit(w) ==
    /\ pc[w] = "recv"
    /\ tasks = <<>>
    /\ closed
    /\ pc' = [pc EXCEPT ![w] = "exited"]
    /\ wg' = wg - 1
    /\ UNCHANGED <<env, proc, call, main, tasks, task, held, stats, tgt, dirs, oc, trace>>

\* Faulty variant of SkipVerdict: an existing target does not end the task.
SkipVerdictFallsThrough(f) == IF f.st = "staterr" THEN "Failed" ELSE "read"

\* Faulty variant of SkipVerdict: an existing target is counted as a failure.
SkipVerdictExistingFails(f) == IF f.st = "absent" THEN "read" ELSE "Failed"

\* Faulty variant of SkipVerdict: a missing target is skipped as well.
SkipVerdictAbsentSkips(f) == IF f.st = "staterr" THEN "Failed" ELSE "Skipped"

\* Faulty variant of SkipVerdict: a failed os.Stat is taken for a missing file.
SkipVerdictStatErrorReads(f) == IF f.st = "file" THEN "Skipped" ELSE "read"

\* The skip check's verdict on the file f os.Stat(targetPath) looks at:
\* err == nil, an error other than not-exist, or not-exist.
SkipVerdict(f) ==
    CASE f.st = "file" -> "Skipped"
      [] f.st = "staterr" -> "Failed"
      [] OTHER -> "read"

\* if !cfg.Overwrite && !cfg.DryRun { os.Stat(targetPath) ... }
SkipCheck(w) ==
    /\ pc[w] = "skipcheck"
    /\ LET p == task[w]
           v == SkipVerdict(tgt[p])
       IN  IF v = "read" THEN Goto(w, p, <<"stat">>, "read", <<>>)
           ELSE Finish(w, p, <<"stat">>, v)
    /\ UNCHANGED <<env, proc, call, main, tasks, wg, tgt, dirs, oc>>

\* Faulty variant of AfterRead: the nil check is missing.
AfterReadNoNilCheck(c, t) == IF c.DryRun THEN "DryRunHits" ELSE "call"

\* Faulty variant of AfterRead: the dry-run branch is missing.
AfterReadNoDryRun(c, t) == IF t = "nil" THEN "Failed" ELSE "call"

\* Faulty variant of AfterRead: the dry-run branch counts the file as Processed.
AfterReadDryIsProcessed(c, t) ==
    IF c.DryRun THEN "Processed"
    ELSE IF t = "nil" THEN "Failed"
    ELSE "call"

\* What follows a successful read: the dry-run branch, then the nil check,
\* then the Translate call.
AfterRead(c, t) ==
    IF c.DryRun THEN "DryRunHits"
    ELSE IF t = "nil" THEN "Failed"
    ELSE "call"

\* utils.ReadFile(sourcePath), the dry-run branch, the nil check and the
\* start of the Translate call.
ReadSource(w) ==
    /\ pc[w] = "read"
    /\ LET p == task[w] IN
       \E r \in {"ok", "err"} :
        /\ oc' = [oc EXCEPT ![p].read = r]
        /\ IF r = "err" THEN Finish(w, p, <<"read">>, "Failed")
           ELSE IF AfterRead(cfg, trans) = "call"
           THEN Goto(w, p, <<"read", "call">>, "translate", SrcContent(p))
           ELSE Finish(w, p, <<"read">>, AfterRead(cfg, trans))
    /\ UNCHANGED <<env, proc, call, main, tasks, wg, tgt, dirs>>

\* Faulty variant of TranslateFailed: the task is counted Processed.
TranslateFailedProcessed(w, p) == Finish(w, p, <<"return">>, "Processed")

\* Faulty variant of TranslateFailed: the deadline context is shared, so the
\* calls in flight in the other workers are cancelled with this one.
TranslateFailedCancelsOthers(w, p) ==
    /\ stats' = Add(stats, "Failed")
    /\ trace' = [trace EXCEPT ![p] = @ \o <<"return", "Failed">>]
    /\ pc' = [v \in Workers |-> IF v = w \/ pc[v] = "translate" THEN "recv" ELSE pc[v]]
    /\ task' = [v \in Workers |-> IF v = w \/ pc[v] = "translate" THEN "" ELSE task[v]]
    /\ held' = [v \in Workers |-> IF v = w \/ pc[v] = "translate" THEN <<>> ELSE held[v]]

\* Faulty variant of TranslateFailed: the call is made again.
TranslateFailedRetries(w, p) ==
    Goto(w, p, <<"return", "call">>, "translate", held[w])

\* if err != nil { ...; stats.Failed.Add(1); continue } after Translate.
TranslateFailed(w, p) == Finish(w, p, <<"return">>, "Failed")

\* trans.Translate returns; cancel(); utils.ExtractTranslation(translatedRaw)
TranslateReturn(w) ==
    /\ pc[w] = "translate"
    /\ LET p == task[w] IN
       \E a \in BackendAnswers(held[w]) :
        /\ oc' = [oc EXCEPT ![p].backend = a]
        /\ IF a.kind # "ok" THEN TranslateFailed(w, p)
           ELSE LET x == ExtractTranslation(a.raw) IN
                IF x.err THEN Finish(w, p, <<"return", "extract">>, "Failed")
                ELSE Goto(w, p, <<"return", "extract">>, "write", x.text)
    /\ UNCHANGED <<env, proc, call, main, tasks, wg, tgt, dirs>>

\* The strict prefixes of s: what a write that fails midway can leave.
StrictPrefixes(s) == {SubSeq(s, 1, k) : k \in 0..(Len(s) - 1)}

\* Faulty variant of ChecksExisting: the existence check never runs.
ChecksExistingNever(overwrite) == FALSE

\* Faulty variant of ChecksExisting: the existence check runs whatever the flag.
ChecksExistingAlways(overwrite) == TRUE

\* utils.WriteFile: `if !overwrite`, whether the existence check runs.
ChecksExisting(overwrite) == ~overwrite

\* utils.WriteFile(path, content, overwrite) on the file f at path p with the
\* directories ds: every result it can have, as [err, file, dirs, how].
\*   "exists"  overwrite is off and os.Stat finds the file: nil, nothing written
\*   "staterr" overwrite is off and os.Stat fails otherwise: error
\*   "mkdir"   os.MkdirAll fails: error
\*   "open"    os.WriteFile cannot open or create the file: error
\*   "short"   os.WriteFile created or truncated the file and the write failed
\*   "ok"      the file holds content
\* A path whose os.Stat fails (permission denied) cannot be opened either.
WriteFile(f, ds, p, content, overwrite) ==
    LET made == ds \cup {Dir(p), "."} IN
    IF ChecksExisting(overwrite) /\ f.st = "file"
    THEN {[err |-> FALSE, file |-> f, dirs |-> ds, how |-> "exists"]}
    ELSE IF ChecksExisting(overwrite) /\ f.st = "staterr"
    THEN {[err |-> TRUE, file |-> f, dirs |-> ds, how |-> "staterr"]}
    ELSE {[err |-> TRUE, file |-> f, dirs |-> ds, how |-> "mkdir"],
          [err |-> TRUE, file |-> f, dirs |-> made, how |-> "open"]}
         \cup IF f.st = "staterr" THEN {}
              ELSE {[err |-> FALSE, file |-> File(content), dirs |-> made, how |-> "ok"]}
                   \cup {[err |-> TRUE, file |-> File(d), dirs |-> made, how |-> "short"] :
                           d \in StrictPrefixes(content)}

\* Faulty variant of PersistCounter: a write WriteFile skipped is counted Skipped.
PersistCounterSkipsExisting(r) ==
    IF r.err THEN "Failed" ELSE IF r.how = "exists" THEN "Skipped" ELSE "Processed"

\* if err != nil { stats.Failed.Add(1); continue }; stats.Processed.Add(1)
PersistCounter(r) == IF r.err THEN "Failed" ELSE "Processed"

\* err = utils.WriteFile(targetPath, translatedContent, cfg.Overwrite)
Persist(w) ==
    /\ pc[w] = "write"
    /\ LET p == task[w] IN
       \E r \in WriteFile(tgt[p], dirs, p, held[w], cfg.Overwrite) :
        /\ oc' = [oc EXCEPT ![p].write = r.how]
        /\ tgt' = [tgt EXCEPT ![p] = r.file]
        /\ dirs' = r.dirs
        /\ Finish(w, p, <<"write">>, PersistCounter(r))
    /\ UNCHANGED <<env, proc, call, main, tasks, wg>>

Worker(w) ==
    \/ Recv(w)
    \/ Exit(w)
    \/ SkipCheck(w)
    \/ ReadSource(w)
    \/ TranslateReturn(w)
    \/ Persist(w)

Next ==
    \/ Spawn
    \/ SpawnDone
    \/ Send
    \/ Close
    \/ Wait
    \/ Summary
    \/ \E w \in Workers : Worker(w)

Spec == Init /\ [][Next]_vars

\* The scheduler runs a goroutine that can take a step, and every system
\* call and backend call returns.
SpecLive == Init /\ [][Next]_vars /\ WF_vars(Next)

\* ---------------------------------------------------------------- re-run
\* A run in which every task was Processed has ended and the program is
\* started again over the same source and target directories, with flags of
\* the user's choice; the file system is as the first run left it.
Rerun ==
    /\ mainPC = "summarized"
    /\ first = <<>>
    /\ stats.Processed = stats.TotalFiles
    /\ first' = <<stats>>
    /\ cfg' \in [Overwrite : BOOLEAN, DryRun : BOOLEAN, Concurrency : 1..MaxWorkers]
    /\ trans' \in {"nil", "backend"}
    /\ dirs' = IF cfg'.DryRun THEN dirs ELSE dirs \cup {"."}
    /\ tgt0' = tgt
    /\ dirs0' = dirs'
    /\ mainPC' = "spawn"
    /\ report' = <<>>
    /\ started' = 0
    /\ sent' = 0
    /\ tasks' = <<>>
    /\ closed' = FALSE
    /\ wg' = 0
    /\ pc' = [w \in Workers |-> "unborn"]
    /\ task' = [w \in Workers |-> ""]
    /\ held' = [w \in Workers |-> <<>>]
    /\ stats' = [TotalFiles |-> Len(files), Processed |-> 0, Skipped |-> 0,
                 Failed |-> 0, DryRunHits |-> 0]
    /\ oc' = [p \in PathSet |-> NoOutcome]
    /\ trace' = [p \in PathSet |-> <<>>]
    /\ UNCHANGED <<files, tgt, proc, call>>

NextRerun ==
    \/ Next
    \/ Rerun

SpecRerun == Init /\ [][NextRerun]_vars

\* ------------------------------------------------------- a file appears
\* What another process writes at a target path.
OtherContent == <<"other">>

\* Between the worker's os.Stat of the skip check, which found no file, and
\* the os.Stat of utils.WriteFile, another process creates the target file.
Appear ==
    /\ ~cfg.Overwrite
    /\ ~cfg.DryRun
    /\ \E w \in Workers :
          /\ pc[w] \in {"read", "translate", "write"}
          /\ tgt[task[w]] = Absent
          /\ tgt' = [tgt EXCEPT ![task[w]] = File(OtherContent)]
          /\ dirs' = dirs \cup {Dir(task[w]), "."}
    /\ UNCHANGED <<env, proc, call, main, tasks, wg, pc, task, held, stats, oc, trace>>

NextRace ==
    \/ Next
    \/ Appear

SpecRace == Init /\ [][NextRace]_vars

\* ---------------------------------------------------------------------------
\* main: start-up, the call of ProcessFiles, the summary and the exit status;
\* and the goroutine of setupSignalHandler.

\* main builds a translator exactly when cfg.DryRun is off.
InitMain ==
    /\ Init
    /\ trans = IF cfg.DryRun THEN "nil" ELSE "backend"

\* if closer, ok := llmTrans.(translator.Closer); ok { defer closer.Close() }
\* The backend is taken to implement Closer; llmTrans is nil in a dry run.
Deferred(t) == IF t = "backend" THEN 1 ELSE 0

\* The process is running and main is before the call of ProcessFiles.
AtStart == exit = <<>> /\ mainPC = "spawn" /\ started = 0

\* The volatile state of the process is gone; what is on disk stays.
Ended(code, ncloses) ==
    /\ exit' = <<code>>
    /\ closes' = ncloses
    /\ mainPC' = "exited"
    /\ UNCHANGED <<env, call, report, started, sent, tasks, closed, wg, pc, task, held,
                   stats, tgt, dirs, oc, trace>>

\* log.Fatalf after LoadConfig, FindMarkdownFiles or NewTranslator failed.
Fatal ==
    /\ AtStart
    /\ Ended(1, closes)

\* if len(filesToProcess) == 0 { ...; os.Exit(0) }
NoFiles ==
    /\ AtStart
    /\ Len(files) = 0
    /\ Ended(0, closes)

\* Faulty variant of FailedStatus: any count gives status 0.
FailedStatusZero(failed) == 0

\* if stats.Failed.Load() > 0 { ...; os.Exit(1) }, else main returns.
FailedStatus(failed) == IF failed > 0 THEN 1 ELSE 0

\* Faulty variant of SummaryPrinted: the status is decided as soon as
\* ProcessFiles has returned.
SummarySkipped == mainPC \in {"returned", "summarized"}

\* main is past the fmt.Print calls of the summary, at the status decision.
SummaryPrinted == mainPC = "summarized"

\* The fields of Stats the summary prints: DryRunHits in a dry run,
\* Processed and Skipped otherwise, TotalFiles and Failed always.
PrintedCounters(c) ==
    IF c.DryRun THEN {"TotalFiles", "DryRunHits", "Failed"}
    ELSE {"TotalFiles", "Processed", "Skipped", "Failed"}

\* os.Exit(1) at the end of main: deferred calls do not run.
ExitFailed ==
    /\ exit = <<>>
    /\ SummaryPrinted
    /\ FailedStatus(stats.Failed) = 1
    /\ Ended(1, closes)

\* main returns: the deferred Close runs, the status is 0.
Return ==
    /\ exit = <<>>
    /\ SummaryPrinted
    /\ FailedStatus(stats.Failed) = 0
    /\ Ended(0, closes + Deferred(trans))

\* Faulty variant of Signal: the handler lets main's deferred Close run.
SignalClosesBackend ==
    /\ exit = <<>>
    /\ exit' = <<0>>
    /\ mainPC' = "killed"
    /\ closes' = closes + Deferred(trans)
    /\ UNCHANGED <<env, call, report, started, sent, tasks, closed, wg, pc, task,
                   held, stats, tgt, dirs, oc, trace>>

\* sig := <-c; log.Printf(...); os.Exit(0) in the goroutine of
\* setupSignalHandler: at any moment, whatever main and the workers do.
Signal ==
    /\ exit = <<>>
    /\ exit' = <<0>>
    /\ mainPC' = "killed"
    /\ UNCHANGED <<env, call, closes, report, started, sent, tasks, closed, wg, pc, task,
                   held, stats, tgt, dirs, oc, trace>>

\* ProcessFiles and the summary run while the process lives and only when
\* files were found.
Running == exit = <<>> /\ Len(files) > 0

NextMain ==
    \/ Running /\ Next
    \/ Fatal
    \/ NoFiles
    \/ ExitFailed
    \/ Return
    \/ Signal

SpecMain == InitMain /\ [][NextMain]_vars

\* ---------------------------------------------------------------------------
\* The functions of package utils called on their own.

\* No run of ProcessFiles is under way: nothing to do and nothing on disk.
Idle ==
    /\ Start
    /\ cfg = [Overwrite |-> FALSE, DryRun |-> TRUE, Concurrency |-> 1]
    /\ trans = "nil"
    /\ files = <<>>
    /\ dirs = {}

\* The raw output noise1 + "<translate>" + x + "</translate>" + noise2.
Raw(a) == a.noise1 \o <<OpenTag>> \o a.x \o <<CloseTag>> \o a.noise2

InitExtract ==
    /\ Idle
    /\ arg \in [noise1 : Texts(MaxText), x : Texts(MaxText), noise2 : Texts(MaxText)]
    /\ ret = <<>>

\* utils.ExtractTranslation(rawLLMOutput) is called and returns.
Extract ==
    /\ ret = <<>>
    /\ ret' = <<ExtractTranslation(Raw(arg))>>
    /\ UNCHANGED <<env, proc, main, arg, tasks, wg, pc, task, held, stats, tgt, dirs,
                   oc, trace>>

NextExtract == Extract

SpecExtract == InitExtract /\ [][NextExtract]_vars

\* ------------------------------------------------- any raw output
\* The tokens of a raw output: the markers, a word, a blank and a line break.
RawTokens == Alphabet \cup {"\n"}

\* The raw outputs of at most n tokens, with or without markers.
RawTexts(n) == UNION {[1..k -> RawTokens] : k \in 0..n}

InitSearch ==
    /\ Idle
    /\ arg \in [raw : RawTexts(MaxText + 4)]
    /\ ret = <<>>

\* utils.ExtractTranslation(rawLLMOutput) is called on any text and returns.
Search ==
    /\ ret = <<>>
    /\ ret' = <<ExtractTranslation(arg.raw)>>
    /\ UNCHANGED <<env, proc, main, arg, tasks, wg, pc, task, held, stats, tgt, dirs,
                   oc, trace>>

NextSearch == Search

SpecSearch == InitSearch /\ [][NextSearch]_vars

\* ---------------------------------------------------------------------------
\* discovery.FindMarkdownFiles over a source tree. A name is its sequence of
\* characters, a path the sequence of its components.

SourceDir == <<<<"s", "r", "c">>>>

NameA == <<"a", ".", "m", "d">>
NameB == <<"B", ".", "M", "D">>
NameC == <<"n", ".", "m", "d", "x">>
NameD == <<"d", ".", "m", "d">>
NameS == <<"s", "u", "b">>
NameE == <<"e", ".", "M", "d">>
NameT == <<"t", ".", "t", "x", "t">>

\* The names an entry of the root can have and the names of its
\* subdirectories, and the names inside a subdirectory.
TopNames == {NameA, NameB, NameC}
DirNames == {NameD, NameS}
InnerNames == {NameE, NameT}

\* os.ReadDir returns the entries sorted by file name (byte order).
TopOrder == <<NameB, NameA, NameD, NameC, NameS>>
InnerOrder == <<NameE, NameT>>

\* The source trees: the state of the root, what is at each name of the
\* root ("none", a regular file or a symbolic link), and for each
\* subdirectory whether it is there, whether os.ReadDir on it works, and the
\* regular files in it.
\*   root "nostat"   os.Lstat(root) fails with a permission error
\*        "missing"  os.Lstat(root) fails because nothing is there
\*        "noread"   os.ReadDir(root) fails with a permission error
\*        "ioerr"    os.ReadDir(root) fails with another error
Trees ==
    [root : {"ok", "nostat", "missing", "noread", "ioerr"},
     top : [TopNames -> {"none", "file", "link"}],
     sub : [DirNames -> [st : {"none", "ok", "noread", "ioerr"},
                         in : [InnerNames -> {"none", "file"}]]]]

\* strings.ToLower on the characters that occur.
Lower(c) ==
    CASE c = "B" -> "b"
      [] c = "M" -> "m"
      [] c = "D" -> "d"
      [] OTHER -> c

ToLower(name) == [i \in 1..Len(name) |-> Lower(name[i])]

\* strings.HasSuffix
HasSuffix(name, suffix) ==
    /\ Len(name) >= Len(suffix)
    /\ SubSeq(name, Len(name) - Len(suffix) + 1, Len(name)) = suffix

DotMd == <<".", "m", "d">>

\* filepath.Rel(sourceDir, path) for a path below sourceDir.
Rel(base, path) == SubSeq(path, Len(base) + 1, Len(path))

\* fs.DirEntry: d == nil, or a name and a kind.
NoEntry == [name |-> <<>>, kind |-> "nil"]
Entry(name, kind) == [name |-> name, kind |-> kind]

\* Faulty variant of OnWalkErr: an error on any directory stops the walk.
OnWalkErrAborts(path, d, walkErr) ==
    IF d # NoEntry /\ d.kind = "dir" THEN "abort"
    ELSE IF path = SourceDir /\ walkErr = "perm" THEN "abort"
    ELSE "continue"

\* The callback's answer when walkErr != nil: an error to return ("abort"),
\* fs.SkipDir, or nil ("continue").
OnWalkErr(path, d, walkErr) ==
    IF path = SourceDir /\ walkErr = "perm" THEN "abort"
    ELSE IF d = NoEntry THEN "continue"
    ELSE IF d.kind = "dir" THEN "skipdir"
    ELSE "continue"

\* !d.IsDir() && strings.HasSuffix(strings.ToLower(d.Name()), ".md")
Selected(d) == d.kind # "dir" /\ HasSuffix(ToLower(d.name), DotMd)

\* Faulty variant of Visit: the entry's name is recorded, not its path.
VisitRecordsName(fs, path, d) == IF Selected(d) THEN Append(fs, <<d.name>>) ELSE fs

\* The callback on an entry without error: the files list afterwards.
Visit(fs, path, d) == IF Selected(d) THEN Append(fs, Rel(SourceDir, path)) ELSE fs

\* The walk of the entries order[i..] of the subdirectory at path: [err, files].
RECURSIVE WalkInner(_, _, _, _)
WalkInner(fs, path, content, i) ==
    IF i > Len(InnerOrder) THEN [err |-> FALSE, files |-> fs]
    ELSE LET name == InnerOrder[i] IN
         IF content[name] = "none" THEN WalkInner(fs, path, content, i + 1)
         ELSE WalkInner(Visit(fs, Append(path, name), Entry(name, content[name])),
                        path, content, i + 1)

\* walkDir on a subdirectory: the callback on the directory itself, then
\* os.ReadDir, the callback again when that fails, then the entries.
WalkSub(fs, name, dir) ==
    LET path == Append(SourceDir, name)
        d == Entry(name, "dir")
        seen == Visit(fs, path, d)
        answer == OnWalkErr(path, d, IF dir.st = "noread" THEN "perm" ELSE "other")
    IN  IF dir.st = "ok" THEN WalkInner(seen, path, dir.in, 1)
        ELSE IF answer = "abort" THEN [err |-> TRUE, files |-> seen]
        ELSE [err |-> FALSE, files |-> seen]

\* The walk of the entries TopOrder[i..] of the root: [err, files].
RECURSIVE WalkTop(_, _, _)
WalkTop(fs, tree, i) ==
    IF i > Len(TopOrder) THEN [err |-> FALSE, files |-> fs]
    ELSE LET name == TopOrder[i] IN
         IF name \in DirNames
         THEN IF tree.sub[name].st = "none" THEN WalkTop(fs, tree, i + 1)
              ELSE LET r == WalkSub(fs, name, tree.sub[name]) IN
                   IF r.err THEN r ELSE WalkTop(r.files, tree, i + 1)
         ELSE IF tree.top[name] = "none" THEN WalkTop(fs, tree, i + 1)
              ELSE WalkTop(Visit(fs, Append(SourceDir, name), Entry(name, tree.top[name])),
                           tree, i + 1)

\* filepath.WalkDir(sourceDir, fn): os.Lstat on the root, then walkDir.
WalkDir(tree) ==
    LET d == Entry(SourceDir[1], "dir") IN
    IF tree.root \in {"nostat", "missing"}
    THEN [err |-> OnWalkErr(SourceDir, NoEntry,
                            IF tree.root = "nostat" THEN "perm" ELSE "other") = "abort",
          files |-> <<>>]
    ELSE IF tree.root \in {"noread", "ioerr"}
    THEN [err |-> OnWalkErr(SourceDir, d,
                            IF tree.root = "noread" THEN "perm" ELSE "other") = "abort",
          files |-> Visit(<<>>, SourceDir, d)]
    ELSE WalkTop(Visit(<<>>, SourceDir, d), tree, 1)

\* discovery.FindMarkdownFiles: (nil, error) or (files, nil).
FindMarkdownFiles(tree) ==
    LET r == WalkDir(tree) IN
    IF r.err THEN [err |-> TRUE, files |-> <<>>] ELSE r

InitFind ==
    /\ Idle
    /\ arg \in Trees
    /\ ret = <<>>

\* discovery.FindMarkdownFiles(cfg.SourceDir) is called and returns.
Find ==
    /\ ret = <<>>
    /\ ret' = <<FindMarkdownFiles(arg)>>
    /\ UNCHANGED <<env, proc, main, arg, tasks, wg, pc, task, held, stats, tgt, dirs,
                   oc, trace>>

NextFind == Find

SpecFind == InitFind /\ [][NextFind]_vars

\* ---------------------------------------------------------------------------
\* config.LoadConfig, and main from its start to the call of ProcessFiles.

\* flag.IntVar(&cfg.Concurrency, "concurrency", 5, ...)
DefaultConcurrency == 5

\* The defaults of the -source, -provider and -overwrite flags.
DefaultSource == "pages"
DefaultProvider == "openai"
DefaultOverwrite == FALSE

SupportedProviders == {"openai", "claude", "gemini"}

\* strings.ToLower on the provider names that occur.
LowerProvider(p) == IF p = "Claude" THEN "claude" ELSE p

\* What flag.Parse leaves in cfg: for each flag the value given on the
\* command line or its default. The worker counts tried are the small ones.
Flags ==
    [source : {DefaultSource, "docs"},
     concurrency : -1..MaxWorkers,
     provider : {DefaultProvider, "mystery"},
     overwrite : BOOLEAN,
     dryrun : BOOLEAN]

\* The TomlConfig decoded from the file: a key the file does not set has
\* the zero value of its type.
Tomls ==
    [source : {"", "manual"},
     concurrency : -1..MaxWorkers,
     provider : {"", "Claude"},
     key : {"", "secret"},
     overwrite : BOOLEAN]

\* -config: not given, a file that does not decode, or a decoded file.
NoConfigFile == [st |-> "none"]
BadConfigFile == [st |-> "bad"]
ConfigFile(t) == [st |-> "ok", toml |-> t]

\* Everything LoadConfig looks at: the command line, the config file, the
\* environment variable MK_TRANSLATOR_API_KEY, the directories that exist,
\* and whether the prompt template parses and the target root can be made.
Invocations ==
    [flags : Flags,
     file : {NoConfigFile, BadConfigFile} \cup {ConfigFile(t) : t \in Tomls},
     envkey : {"", "secret"},
     existing : SUBSET {"docs", "manual"},
     late : {"ok", "fail"}]

\* The directories that exist: the default source directory always does.
Existing(a) == a.existing \cup {DefaultSource}

\* loadTomlConfig: the settings of cfg after the file was applied.
loadTomlConfig(c, t) ==
    [c EXCEPT !.LLMProvider = IF t.provider # "" THEN t.provider ELSE @,
              !.LLMAPIKey = IF t.key # "" THEN t.key ELSE @,
              !.SourceDir = IF t.source # "" THEN t.source ELSE @,
              !.Concurrency = IF t.concurrency > 0 THEN t.concurrency ELSE @,
              !.Overwrite = t.overwrite]

\* Faulty variant of ConcurrencyRejected: zero is let through.
ConcurrencyRejectedBelowZero(n) == n < 0

\* if cfg.Concurrency <= 0 { return nil, fmt.Errorf(...) }
ConcurrencyRejected(n) == n <= 0

\* Faulty variant of SourceMissing: the check is left out.
SourceMissingIgnored(dir, existing) == FALSE

\* if _, err := os.Stat(cfg.SourceDir); os.IsNotExist(err)
SourceMissing(dir, existing) == dir \notin existing

\* config.LoadConfig: [err, cfg]; cfg is nil (here <<>>) with an error.
LoadConfig(a) ==
    LET parsed == [SourceDir |-> a.flags.source,
                   Concurrency |-> a.flags.concurrency,
                   LLMProvider |-> a.flags.provider,
                   LLMAPIKey |-> a.envkey,
                   Overwrite |-> a.flags.overwrite,
                   DryRun |-> a.flags.dryrun]
        merged == IF a.file.st = "ok" THEN loadTomlConfig(parsed, a.file.toml) ELSE parsed
        c == [merged EXCEPT !.LLMProvider = LowerProvider(@)]
        failed ==
            \/ a.file.st = "bad"
            \/ c.LLMProvider \notin SupportedProviders
            \/ c.LLMAPIKey = "" /\ ~c.DryRun
            \/ ConcurrencyRejected(c.Concurrency)
            \/ SourceMissing(c.SourceDir, Existing(a))
            \/ a.late = "fail"
    IN  IF failed THEN [err |-> TRUE, cfg |-> <<>>] ELSE [err |-> FALSE, cfg |-> <<c>>]

\* main starts: nothing of ProcessFiles exists yet.
InitBoot ==
    /\ Idle
    /\ \E a \in Invocations : arg = <<a>>
    /\ ret = <<>>

\* main is before the call of ProcessFiles.
Booting == arg # <<>>

\* cfg, err := config.LoadConfig()
Load ==
    /\ Booting
    /\ exit = <<>>
    /\ ret = <<>>
    /\ ret' = <<LoadConfig(arg[1])>>
    /\ UNCHANGED <<env, proc, main, arg, tasks, wg, pc, task, held, stats, tgt, dirs,
                   oc, trace>>

\* if err != nil { log.Fatalf("配置错误: %v", err) }
LoadFatal ==
    /\ Booting
    /\ exit = <<>>
    /\ ret # <<>>
    /\ ret[1].err
    /\ Ended(1, closes)

\* LoadConfig returned a Config: FindMarkdownFiles returns some files, the
\* translator is built unless cfg.DryRun, and ProcessFiles is called with
\* them and whatever is at the target paths.
Enter ==
    /\ Booting
    /\ exit = <<>>
    /\ ret # <<>>
    /\ ~ret[1].err
    /\ cfg' = [Overwrite |-> ret[1].cfg[1].Overwrite,
               DryRun |-> ret[1].cfg[1].DryRun,
               Concurrency |-> ret[1].cfg[1].Concurrency]
    /\ trans' = IF cfg'.DryRun THEN "nil" ELSE "backend"
    /\ \E n \in 0..MaxFiles : files' = SubSeq(AllPaths, 1, n)
    /\ tgt' \in [PathSet -> {Absent, StatErr, File(OldContent)}]
    /\ \A p \in PathSet : (\A i \in 1..Len(files') : files'[i] # p) => tgt'[p] = Absent
    /\ dirs' \in ConsistentDirs(tgt', cfg'.DryRun)
    /\ tgt0' = tgt'
    /\ dirs0' = dirs'
    /\ stats' = [TotalFiles |-> Len(files'), Processed |-> 0, Skipped |-> 0,
                 Failed |-> 0, DryRunHits |-> 0]
    /\ arg' = <<>>
    /\ ret' = <<>>
    /\ UNCHANGED <<proc, main, first, tasks, wg, pc, task, held, oc, trace>>

\* After Enter: ProcessFiles, the summary and the ends of main.
Entered ==
    /\ ~Booting
    /\ \/ Running /\ Next
       \/ Fatal
       \/ NoFiles
       \/ ExitFailed
       \/ Return

NextBoot ==
    \/ Load
    \/ LoadFatal
    \/ Enter
    \/ Entered

SpecBoot == InitBoot /\ [][NextBoot]_vars

\* The directory sets a file f at path p can be found with.
DirsAround(f, p) ==
    { D \in SUBSET AllDirs :
        /\ "sub" \in D => "." \in D
        /\ f.st = "file" => Dir(p) \in D }

\* WriteFile is called for any path, file at the path, directories, content
\* and flag.
InitWrite ==
    /\ Idle
    /\ \E p \in PathSet, f \in {Absent, StatErr, File(OldContent), File(<<>>)} :
         \E D \in DirsAround(f, p) :
           arg \in [p : {p}, f : {f}, ds : {D}, content : Texts(MaxText),
                    overwrite : BOOLEAN]
    /\ ret = <<>>

\* utils.WriteFile(path, content, overwrite) returns: ret holds the error,
\* the file at the path and the directories it leaves.
Write ==
    /\ ret = <<>>
    /\ \E r \in WriteFile(arg.f, arg.ds, arg.p, arg.content, arg.overwrite) :
         ret' = <<r>>
    /\ UNCHANGED <<env, proc, main, arg, tasks, wg, pc, task, held, stats, tgt, dirs,
                   oc, trace>>

NextWrite == Write

SpecWrite == InitWrite /\ [][NextWrite]_vars

\* ================================================================ claims
\* ProcessFiles has returned (main may have printed its summary since).
Returned == mainPC \in {"returned", "summarized"}

\* The paths of the tasks of this run.
Files == {files[i] : i \in 1..Len(files)}

IsCounter(e) == e \in Counters

\* The counters incremented for path p, in order.
CounterSteps(p) == SelectSeq(trace[p], IsCounter)

\* How often step e was taken for path p.
Count(p, e) == Len(SelectSeq(trace[p], LAMBDA x : x = e))

\* The terminal classification of path p: the counter incremented for it.
Class(p) == IF CounterSteps(p) = <<>> THEN "none" ELSE CounterSteps(p)[1]

\* The paths of this run with a given classification.
Classed(c) == {p \in Files : Class(p) = c}

\* C1: after ProcessFiles returns, Processed + Skipped + Failed + DryRunHits
\* equals TotalFiles, and exactly one counter was incremented, once, for
\* every task.
C1_EveryTaskCountedOnce ==
    Returned =>
        /\ stats.Processed + stats.Skipped + stats.Failed + stats.DryRunHits
             = stats.TotalFiles
        /\ stats.TotalFiles = Len(files)
        /\ \A p \in Files : Len(CounterSteps(p)) = 1
        /\ \A c \in Counters : stats[c] = Cardinality(Classed(c))

C1_Witness ==
    /\ Returned
    /\ cfg.Concurrency >= 2
    /\ stats.Failed >= 1
    /\ stats.Processed >= 1

\* C2: every task put into the channel is received exactly once: never by
\* two workers, never twice, and none is left when ProcessFiles returns.
C2_ExactlyOnceDelivery ==
    /\ \A p \in PathSet : Count(p, "recv") <= 1
    /\ \A p \in PathSet : Cardinality({w \in Workers : task[w] = p}) <= 1
    /\ \A p \in PathSet \ Files : Count(p, "recv") = 0
    /\ Returned => tasks = <<>> /\ \A p \in Files : Count(p, "recv") = 1

C2_Witness ==
    /\ Returned
    /\ cfg.Concurrency >= 2
    /\ Len(files) >= 2
    /\ \A p \in Files : Count(p, "recv") = 1

\* The classification a task gets from its own data alone: the flags, the
\* file at its own target path when the run began, and the outcomes of its
\* own steps.
Expected(p) ==
    IF ~cfg.Overwrite /\ ~cfg.DryRun /\ tgt0[p].st = "file" THEN "Skipped"
    ELSE IF ~cfg.Overwrite /\ ~cfg.DryRun /\ tgt0[p].st = "staterr" THEN "Failed"
    ELSE IF oc[p].read = "err" THEN "Failed"
    ELSE IF cfg.DryRun THEN "DryRunHits"
    ELSE IF trans = "nil" THEN "Failed"
    ELSE IF oc[p].backend.kind # "ok" THEN "Failed"
    ELSE IF IndexFrom(oc[p].backend.raw, OpenTag, 1) = 0 THEN "Failed"
    ELSE IF oc[p].write \in {"ok", "exists"} THEN "Processed"
    ELSE "Failed"

\* Worker w is working on a task.
Busy(w) == pc[w] \in {"skipcheck", "read", "translate", "write"}

\* C3: a failing step of one task only increments Failed: the worker goes
\* back to receive its next task, nothing of any other worker or task
\* changes, and every task's classification is decided by its own data.
C3_FailureIsolated ==
    /\ [][\A w \in Workers :
            (Busy(w) /\ pc'[w] # pc[w] /\ stats'.Failed # stats.Failed) =>
                /\ pc'[w] = "recv"
                /\ stats' = [stats EXCEPT !.Failed = @ + 1]
                /\ \A v \in Workers \ {w} :
                      pc'[v] = pc[v] /\ task'[v] = task[v] /\ held'[v] = held[v]
                /\ \A q \in PathSet \ {task[w]} :
                      trace'[q] = trace[q] /\ oc'[q] = oc[q] /\ tgt'[q] = tgt[q]
                /\ <<mainPC, tasks, closed, wg>>' = <<mainPC, tasks, closed, wg>>]_vars
    /\ [](\A p \in Files : Class(p) # "none" => Class(p) = Expected(p))

C3_Witness ==
    /\ Returned
    /\ cfg.Concurrency = 1
    /\ Len(files) >= 2
    /\ Class(files[1]) = "Failed"
    /\ Class(files[2]) = "Processed"

\* C4: in dry-run mode Translate is never invoked and no file or directory
\* under the target root is created or modified.
C4_DryRunTouchesNothing ==
    cfg.DryRun =>
        /\ \A p \in PathSet : Count(p, "call") = 0
        /\ \A w \in Workers : pc[w] \notin {"translate", "write"}
        /\ tgt = tgt0
        /\ dirs = dirs0

C4_Witness ==
    /\ cfg.DryRun
    /\ trans = "backend"
    /\ Returned
    /\ stats.DryRunHits >= 2
    /\ \E p \in Files : tgt0[p].st = "file"
    /\ \E p \in Files : tgt0[p].st = "absent"

\* The tasks of this run whose source could not be read.
Unreadable == {p \in Files : oc[p].read = "err"}

\* C5 as stated: in dry-run mode DryRunHits equals Total after the run.
C5_Original == (cfg.DryRun /\ Returned) => stats.DryRunHits = stats.TotalFiles

\* C5, amended: in dry-run mode, after the run, DryRunHits equals Total minus
\* the number of tasks whose source could not be read; those are counted
\* Failed, and Skipped and Processed are 0.
C5_DryRunHitsAreReadableFiles ==
    (cfg.DryRun /\ Returned) =>
        /\ stats.DryRunHits = stats.TotalFiles - Cardinality(Unreadable)
        /\ stats.Failed = Cardinality(Unreadable)
        /\ stats.Skipped = 0
        /\ stats.Processed = 0

C5_Witness ==
    /\ cfg.DryRun
    /\ Returned
    /\ stats.DryRunHits >= 1
    /\ Cardinality(Unreadable) >= 1


\* C6: after a run in which every task was Processed, a second run over the
\* same directories with overwrite and dry-run off calls no backend, leaves
\* every target file as it was, and ends with Skipped = Total, Processed = 0.
C6_RerunSkipsAll ==
    (/\ first # <<>>
     /\ first[1].Processed = first[1].TotalFiles
     /\ ~cfg.Overwrite
     /\ ~cfg.DryRun) =>
        /\ \A p \in PathSet : Count(p, "call") = 0
        /\ tgt = tgt0
        /\ stats.Processed = 0
        /\ stats.Failed = 0
        /\ Returned => stats.Skipped = stats.TotalFiles

C6_Witness ==
    /\ first # <<>>
    /\ first[1].Processed >= 2
    /\ ~cfg.Overwrite
    /\ ~cfg.DryRun
    /\ cfg.Concurrency >= 2
    /\ Returned
    /\ stats.Skipped >= 2

\* The text a task's backend answer is extracted to.
Extracted(p) == ExtractTranslation(oc[p].backend.raw).text

\* The target of p holds the text translated for p in this run.
Replaced(p) ==
    /\ oc[p].backend.kind = "ok"
    /\ tgt[p] = File(Extracted(p))
    /\ tgt[p] # tgt0[p]

ExpectedCount(c) == Cardinality({p \in Files : Expected(p) = c})

\* C8: the final Stats are decided by the flags, the initial target files and
\* each task's own step outcomes: they are the same for every worker count
\* and every interleaving.
C8_StatsOrderIndependent ==
    Returned =>
        /\ stats.TotalFiles = Len(files)
        /\ stats.Processed = ExpectedCount("Processed")
        /\ stats.Skipped = ExpectedCount("Skipped")
        /\ stats.Failed = ExpectedCount("Failed")
        /\ stats.DryRunHits = ExpectedCount("DryRunHits")

C8_Witness ==
    /\ Returned
    /\ cfg.Concurrency >= 2
    /\ Len(files) >= 2
    /\ stats.Processed = 1
    /\ stats.Failed = 1
    /\ Class(files[1]) = "Failed"

\* The skip check applies to p and finds a file.
SkipCase(p) == ~cfg.Overwrite /\ ~cfg.DryRun /\ tgt0[p].st = "file"

\* C9: with overwrite and dry-run off, a task whose target file exists only
\* increments Skipped: its source is not read, the backend is not called, the
\* target is unchanged and Failed is not incremented.
C9_SkipDoesNothingElse ==
    /\ \A p \in Files : SkipCase(p) =>
          /\ trace[p] \in {<<>>, <<"recv">>, <<"recv", "stat", "Skipped">>}
          /\ oc[p] = NoOutcome
          /\ tgt[p] = tgt0[p]
    /\ Returned =>
          /\ \A p \in Files : SkipCase(p) => Class(p) = "Skipped"
          /\ (\A p \in Files : SkipCase(p)) =>
                stats = [TotalFiles |-> Len(files), Processed |-> 0,
                         Skipped |-> Len(files), Failed |-> 0, DryRunHits |-> 0]

C9_Witness ==
    /\ Returned
    /\ \E p \in Files : SkipCase(p) /\ Class(p) = "Skipped"
    /\ \E p \in Files : ~SkipCase(p) /\ Class(p) = "Processed"

\* The workers ProcessFiles started.
StartedWorkers == 1..started

\* C10: ProcessFiles returns only after every worker it started has exited;
\* after that no counter changes, and the summary shows the final counters.
C10_ReturnAfterAllWorkersExit ==
    /\ [](Returned =>
            /\ started = cfg.Concurrency
            /\ \A w \in StartedWorkers : pc[w] = "exited"
            /\ \A w \in Workers \ StartedWorkers : pc[w] = "unborn"
            /\ wg = 0)
    /\ [][Returned => stats' = stats]_vars
    /\ [](mainPC = "summarized" => report = <<stats>>)

C10_Witness ==
    /\ mainPC = "summarized"
    /\ cfg.Concurrency >= 2
    /\ stats.Processed >= 1
    /\ stats.Failed >= 1

\* The workers that hold a task.
Holding == {w \in Workers : task[w] # ""}

\* The paths whose Translate call has begun and not returned.
InFlight == {p \in PathSet : Count(p, "call") > Count(p, "return")}

\* C11: ProcessFiles starts exactly cfg.Concurrency workers and never more,
\* so at most cfg.Concurrency Translate calls are in flight at any instant
\* and every worker has at most one task in progress.
C11_AtMostConcurrencyInFlight ==
    /\ started <= cfg.Concurrency
    /\ Cardinality({w \in Workers : pc[w] # "unborn"}) = started
    /\ mainPC # "spawn" => started = cfg.Concurrency
    /\ Cardinality(InFlight) <= cfg.Concurrency
    /\ Cardinality(InFlight) = Cardinality({w \in Workers : pc[w] = "translate"})
    /\ \A w \in Workers : pc[w] = "translate" => task[w] \in InFlight
    /\ \A w \in Workers : Busy(w) <=> task[w] # ""
    /\ \A v, w \in Holding : v # w => task[v] # task[w]

C11_Witness ==
    /\ cfg.Concurrency = 2
    /\ Cardinality(InFlight) = 2
    /\ \A w \in Workers : pc[w] = "translate"

\* C12: Translate is invoked at most once per task in a run, and a task
\* counted Failed is never put into the channel or worked on again.
C12_NoRetry ==
    /\ [](\A p \in PathSet : Count(p, "call") <= 1)
    /\ [][\A p \in Files : Class(p) = "Failed" =>
            /\ trace'[p] = trace[p]
            /\ oc'[p] = oc[p]
            /\ \A i \in 1..Len(tasks') : tasks'[i] # p
            /\ \A w \in Workers : task'[w] # p]_vars

C12_Witness ==
    /\ Returned
    /\ \E p \in Files :
          /\ Class(p) = "Failed"
          /\ oc[p].backend.kind \in {"err", "timeout"}
          /\ Count(p, "call") = 1

\* main ran to its end: the summary was printed and the process exited.
Completed == mainPC = "exited" /\ report # <<>>

\* C13 as stated: the exit status is non-zero when Failed > 0 and zero
\* otherwise.
C13_Original == exit # <<>> => (exit[1] # 0 <=> stats.Failed > 0)

\* C13, amended: a run that reaches the end of main exits non-zero when
\* Failed > 0 and zero otherwise, so a dry run without failures exits zero;
\* a run that found no files exits zero; a run ended by SIGINT or SIGTERM
\* exits zero whatever Failed is; a run that fails at start-up exits non-zero
\* with no file counted.
C13_ExitStatus ==
    /\ Completed => (exit[1] # 0 <=> stats.Failed > 0)
    /\ Completed => exit[1] \in {0, 1}
    /\ (Completed /\ cfg.DryRun /\ stats.Failed = 0) => exit = <<0>>
    /\ mainPC = "killed" => exit = <<0>>
    /\ (mainPC = "exited" /\ report = <<>>) =>
          /\ started = 0
          /\ stats.Failed = 0
          /\ Len(files) > 0 => exit = <<1>>
    /\ exit # <<>> <=> mainPC \in {"exited", "killed"}

C13_Witness ==
    /\ Completed
    /\ stats.Failed > 0
    /\ stats.Processed > 0
    /\ exit = <<1>>

\* Some Translate call was made, and every call made ended by the timeout of
\* its context.
AllCallsTimedOut ==
    /\ \E p \in Files : Count(p, "call") > 0
    /\ \A p \in Files : oc[p].backend.kind \in {"?", "timeout"}

\* C14: a Translate call that times out or returns an error increments Failed
\* for its task and changes nothing else, and no target file is written for
\* the task; so when every call times out, no target exists beforehand and
\* dry-run is off, a completed run has Failed = Total, Processed = 0 and a
\* failure exit status, for every worker count.
C14_TimeoutsOnlyFail ==
    /\ [][\A p \in Files :
            (oc[p].backend = NoAnswer /\ oc'[p].backend.kind \in {"err", "timeout"}) =>
                /\ stats' = [stats EXCEPT !.Failed = @ + 1]
                /\ tgt' = tgt
                /\ dirs' = dirs
                /\ \A q \in PathSet \ {p} : trace'[q] = trace[q] /\ oc'[q] = oc[q]]_vars
    /\ [](\A p \in Files : oc[p].backend.kind \in {"err", "timeout"} =>
            /\ Class(p) = "Failed"
            /\ Count(p, "write") = 0
            /\ tgt[p] = tgt0[p])
    /\ []((/\ Completed
           /\ ~cfg.DryRun
           /\ \A p \in Files : tgt0[p] = Absent
           /\ AllCallsTimedOut) =>
              /\ stats.Failed = stats.TotalFiles
              /\ stats.Processed = 0
              /\ exit[1] # 0)

C14_Witness ==
    /\ Completed
    /\ ~cfg.DryRun
    /\ cfg.Concurrency = 2
    /\ Len(files) = 2
    /\ \A p \in Files : tgt0[p] = Absent /\ oc[p].backend.kind = "timeout"
    /\ stats.Failed = 2
    /\ exit = <<1>>

\* Every step of the task of p that has happened has succeeded.
NoStepFailed(p) ==
    /\ tgt0[p].st # "staterr"
    /\ oc[p].read \in {"?", "ok"}
    /\ oc[p].backend.kind \in {"?", "ok"}
    /\ ~ExtractTranslation(oc[p].backend.raw).err \/ oc[p].backend.kind = "?"
    /\ oc[p].write \in {"?", "ok"}

\* The tasks whose target file existed before the run.
HadTarget == {p \in Files : tgt0[p].st = "file"}

\* C15: with overwrite and dry-run off, when every source is readable and
\* every backend call, extraction and write succeeds, Skipped is the number
\* of tasks whose target file existed before the run, Processed is the
\* number of the others, and Failed is 0.
C15_SkippedAreExistingTargets ==
    (/\ Returned
     /\ ~cfg.Overwrite
     /\ ~cfg.DryRun
     /\ trans = "backend"
     /\ \A p \in Files : NoStepFailed(p)) =>
        /\ stats.Skipped = Cardinality(HadTarget)
        /\ stats.Processed = stats.TotalFiles - Cardinality(HadTarget)
        /\ stats.Failed = 0
        /\ \A p \in Files : Class(p) = IF p \in HadTarget THEN "Skipped" ELSE "Processed"

C15_Witness ==
    /\ Returned
    /\ ~cfg.Overwrite
    /\ ~cfg.DryRun
    /\ trans = "backend"
    /\ \A p \in Files : NoStepFailed(p)
    /\ stats.Skipped = 1
    /\ stats.Processed = 1

\* s has an opening marker with a closing marker somewhere after it.
HasSpan(s) == \E i, j \in 1..Len(s) : i < j /\ s[i] = OpenTag /\ s[j] = CloseTag

\* ExtractTranslation fails on every text without a span.
NoSpanIsAnError == \A s \in Texts(MaxText + 2) : ~HasSpan(s) => ExtractTranslation(s).err

\* C16: when the raw output of the backend has no <translate>...</translate>
\* span, ExtractTranslation returns an error, the task is counted Failed and
\* nothing is written: the raw output never reaches the target file.
C16_NoMarkersFails ==
    /\ NoSpanIsAnError
    /\ \A p \in Files :
          (oc[p].backend.kind = "ok" /\ ~HasSpan(oc[p].backend.raw)) =>
              /\ ExtractTranslation(oc[p].backend.raw).err
              /\ Class(p) = "Failed"
              /\ Count(p, "write") = 0
              /\ oc[p].write = "?"
              /\ tgt[p] = tgt0[p]
              /\ \A w \in Workers : task[w] = p => pc[w] # "write"

C16_Witness ==
    /\ Returned
    /\ \E p \in Files :
          /\ oc[p].backend.kind = "ok"
          /\ ~HasSpan(oc[p].backend.raw)
          /\ Class(p) = "Failed"
          /\ tgt0[p].st = "file"
          /\ tgt[p] = tgt0[p]

\* The token tok occurs in the text s.
Occurs(tok, s) == \E k \in 1..Len(s) : s[k] = tok

\* C17 as stated: for every noise1, X and noise2, ExtractTranslation of
\* noise1 + "<translate>" + X + "</translate>" + noise2 returns X trimmed and
\* no error.
C17_Original ==
    ret # <<>> => ~ret[1].err /\ ret[1].text = TrimSpace(arg.x)

\* C17, amended: for every raw output noise1 + "<translate>" + X +
\* "</translate>" + noise2 in which noise1 holds no start marker and X holds
\* no end marker, ExtractTranslation returns exactly X with its leading and
\* trailing whitespace trimmed, and no error; nothing from outside the
\* markers is in the result. Without that condition there is still no error.
C17_ExtractsInnerText ==
    ret # <<>> =>
        /\ ~ret[1].err
        /\ (~Occurs(OpenTag, arg.noise1) /\ ~Occurs(CloseTag, arg.x)) =>
              /\ ret[1].text = TrimSpace(arg.x)
              /\ ret[1].text # <<>> =>
                    /\ Head(ret[1].text) \notin Space
                    /\ ret[1].text[Len(ret[1].text)] \notin Space

C17_Witness ==
    /\ ret # <<>>
    /\ arg.noise1 = <<"x", " ">>
    /\ arg.x = <<" ", "x">>
    /\ arg.noise2 = <<"x", CloseTag>>
    /\ ret[1] = [err |-> FALSE, text |-> <<"x">>]

\* C18: WriteFile with overwrite = false on a path where a file exists
\* returns nil without writing: the file is unchanged and no directory is
\* created; when the existence check fails for a reason other than not-found
\* it returns that error and writes nothing either.
C18_NoOverwriteLeavesFile ==
    (ret # <<>> /\ ~arg.overwrite) =>
        /\ arg.f.st = "file" =>
              ret[1] = [err |-> FALSE, file |-> arg.f, dirs |-> arg.ds, how |-> "exists"]
        /\ arg.f.st = "staterr" =>
              ret[1] = [err |-> TRUE, file |-> arg.f, dirs |-> arg.ds, how |-> "staterr"]

C18_Witness ==
    /\ ret # <<>>
    /\ ~arg.overwrite
    /\ arg.f = File(OldContent)
    /\ arg.content = <<"x", "x">>
    /\ arg.p = "sub/b.md"
    /\ ret[1].file = File(OldContent)
    /\ ~ret[1].err

\* C19: the write of WriteFile is all-or-nothing: after it returns the file
\* holds the complete new content (on success) or exactly what it held
\* before the call (on error), never a truncated or partly written file.
C19_AllOrNothing ==
    ret # <<>> =>
        /\ ret[1].err => ret[1].file = arg.f
        /\ (~ret[1].err /\ ret[1].how # "exists") => ret[1].file = File(arg.content)

\* A failed write has left a file that is neither the old nor the new one.
C19_Witness ==
    /\ ret # <<>>
    /\ arg.overwrite
    /\ arg.f = File(OldContent)
    /\ arg.content = <<"x", "x">>
    /\ ret[1].err
    /\ ret[1].file = File(<<"x">>)

\* C20: when the backend implements Closer, Close is called exactly once on
\* every exit path after the backend was built: completion with Failed = 0,
\* completion with Failed > 0, and abort.
C20_ClosedOnEveryExit ==
    /\ closes <= 1
    /\ (Completed /\ trans = "backend") => closes = 1
    /\ (mainPC = "killed" /\ started > 0 /\ trans = "backend") => closes = 1

\* The run completed with failures and the backend was never closed.
C20_Witness ==
    /\ Completed
    /\ trans = "backend"
    /\ stats.Failed > 0
    /\ exit = <<1>>
    /\ closes = 0

\* The elements of a sequence.
Range(q) == {q[i] : i \in 1..Len(q)}

\* The names that end in ".md" whatever the case of their letters.
MdNames == {NameA, NameB, NameD, NameE}

\* The subdirectories of the tree that the walk can read.
Readable(tree) == {d \in DirNames : tree.sub[d].st = "ok"}

\* The relative paths of the entries of the given kinds with a ".md" name,
\* in the root and in the readable subdirectories.
MdEntries(tree, kinds) ==
    {<<n>> : n \in {m \in TopNames \cap MdNames : tree.top[m] \in kinds}}
      \cup UNION {{<<d, n>> : n \in {m \in InnerNames \cap MdNames :
                                         tree.sub[d].in[m] \in kinds}} :
                    d \in Readable(tree)}

\* C21: a permission error on the source root makes FindMarkdownFiles return
\* an error; an error on a subdirectory makes it skip that subtree, an error
\* on a single entry only that entry, and in these cases it returns every
\* eligible file outside the skipped part and a nil error.
C21_TraversalErrorPolicy ==
    ret # <<>> =>
        /\ arg.root \in {"nostat", "noread"} => ret[1] = [err |-> TRUE, files |-> <<>>]
        /\ arg.root \notin {"nostat", "noread"} => ~ret[1].err
        /\ arg.root \in {"missing", "ioerr"} => ret[1].files = <<>>
        /\ arg.root = "ok" =>
              /\ Range(ret[1].files) = MdEntries(arg, {"file", "link"})
              /\ \A d \in DirNames \ Readable(arg) :
                    \A f \in Range(ret[1].files) : f[1] # d

C21_Witness ==
    /\ ret # <<>>
    /\ arg.root = "ok"
    /\ arg.top[NameA] = "file"
    /\ arg.sub[NameS] = [st |-> "noread", in |-> [n \in InnerNames |-> "file"]]
    /\ arg.sub[NameD] = [st |-> "ok", in |-> [n \in InnerNames |-> "file"]]
    /\ ~ret[1].err
    /\ <<NameD, NameE>> \in Range(ret[1].files)
    /\ <<NameA>> \in Range(ret[1].files)

\* C22: FindMarkdownFiles returns exactly the regular files under the source
\* root whose name ends in ".md" case-insensitively, each as a path relative
\* to the root; a directory or an entry that is not a regular file, such as a
\* symbolic link, is never returned.
C22_ReturnsRegularFilesOnly ==
    (ret # <<>> /\ arg.root = "ok") =>
        /\ Range(ret[1].files) = MdEntries(arg, {"file"})
        /\ \A f \in Range(ret[1].files) : Len(f) \in {1, 2} /\ f[1] # SourceDir[1]

\* A symbolic link named a.md is returned next to the regular files.
C22_Witness ==
    /\ ret # <<>>
    /\ arg.root = "ok"
    /\ arg.top = [n \in TopNames |-> IF n = NameA THEN "link" ELSE "file"]
    /\ arg.sub[NameD] = [st |-> "ok", in |-> [n \in InnerNames |-> "file"]]
    /\ arg.sub[NameS].st = "none"
    /\ ret[1].files = <<<<NameB>>, <<NameA>>, <<NameD, NameE>>>>

\* Nothing of ProcessFiles has happened: no worker, no task, no file counted.
NothingRan ==
    /\ started = 0
    /\ \A w \in Workers : pc[w] = "unborn"
    /\ \A p \in PathSet : trace[p] = <<>>
    /\ tgt = tgt0
    /\ report = <<>>

\* LoadConfig has returned to main, which has not gone on yet or has ended.
Loaded == Booting /\ ret # <<>>

\* Apart from the source directory and the worker count, the invocation
\* gives LoadConfig no reason to fail.
OtherwiseFine(a) ==
    /\ a.file.st # "bad"
    /\ a.flags.provider = DefaultProvider
    /\ a.envkey # ""
    /\ a.late = "ok"

\* C23: if the source root does not exist the run fails fatally before the
\* pipeline starts: no worker is started, no task executes and the process
\* ends with a failure status.
C23_MissingRootIsFatal ==
    /\ (Loaded /\ ~ret[1].err) => ret[1].cfg[1].SourceDir \in Existing(arg[1])
    /\ (Loaded /\ arg[1].file.st = "none" /\ arg[1].flags.source \notin Existing(arg[1]))
          => ret[1].err
    /\ (Loaded /\ arg[1].file.st = "ok" /\ arg[1].file.toml.source \notin Existing(arg[1]) \cup {""})
          => ret[1].err
    /\ Booting => NothingRan
    /\ (Booting /\ exit # <<>>) => (ret[1].err /\ exit = <<1>> /\ mainPC = "exited")

C23_Witness ==
    /\ Booting
    /\ exit = <<1>>
    /\ NothingRan
    /\ OtherwiseFine(arg[1])
    /\ arg[1].flags.concurrency = 2
    /\ arg[1].file.st = "none"
    /\ arg[1].flags.source = "docs"
    /\ "docs" \notin arg[1].existing

C26_CommandLineOverridesFile ==
    (Loaded /\ ~ret[1].err /\ arg[1].file.st = "ok") =>
        LET f == arg[1].flags
            t == arg[1].file.toml
            c == ret[1].cfg[1]
        IN  /\ (f.source # DefaultSource /\ t.source # "") => c.SourceDir = f.source
            /\ (f.concurrency # DefaultConcurrency /\ t.concurrency > 0) =>
                  c.Concurrency = f.concurrency
            /\ (f.provider # DefaultProvider /\ t.provider # "") =>
                  c.LLMProvider = LowerProvider(f.provider)
            /\ (f.overwrite # DefaultOverwrite) => c.Overwrite = f.overwrite

\* -source docs on the command line, source_dir = "manual" in the file: the
\* run uses "manual".
C26_Witness ==
    /\ Loaded
    /\ ~ret[1].err
    /\ arg[1].flags.source = "docs"
    /\ arg[1].file.st = "ok"
    /\ arg[1].file.toml.source = "manual"
    /\ ret[1].cfg[1].SourceDir = "manual"

\* C25 as stated: the summary is printed on every path by which the
\* program ends.
C25_Original == exit # <<>> => report # <<>>

\* C25, amended: the summary, with the total, the failures and the counts of
\* the outcome categories of the mode (DryRunHits in a dry run, Processed and
\* Skipped otherwise; the others are 0), is printed at the end of every run
\* in which ProcessFiles returned and main went on to its end. It is not
\* printed when no file was found, when start-up fails, or when a signal
\* ends the process before main reaches it.
C25_SummaryAfterProcessFiles ==
    /\ (mainPC = "exited" /\ started > 0) => report = <<stats>>
    /\ (mainPC = "exited" /\ started = 0) => report = <<>>
    /\ report # <<>> =>
          /\ report[1] = stats
          /\ \A c \in DOMAIN stats \ PrintedCounters(cfg) : report[1][c] = 0
          /\ report[1].Processed + report[1].Skipped + report[1].Failed
               + report[1].DryRunHits = report[1].TotalFiles
    /\ (mainPC = "killed" /\ report # <<>>) => \A w \in Workers : pc[w] \in {"unborn", "exited"}

C25_Witness ==
    /\ mainPC = "exited"
    /\ report = <<stats>>
    /\ ~cfg.DryRun
    /\ stats.Processed = 1
    /\ stats.Skipped = 1
    /\ exit = <<0>>

StatErrCase(p) == ~cfg.Overwrite /\ ~cfg.DryRun /\ tgt0[p].st = "staterr"

\* The traces of a task that ends at a failed target check.
StatErrTraces == {<<>>, <<"recv">>, <<"recv", "stat", "Failed">>}

\* C28: with overwrite and dry-run off, a task whose target check fails for
\* a reason other than 'does not exist' is counted Failed, not Skipped or
\* Processed; its source is not read, the backend is not called and nothing
\* is written.
C28_StatErrorFailsTask ==
    (~cfg.Overwrite /\ ~cfg.DryRun) =>
        \A i \in 1..Len(files) : StatErrCase(files[i]) =>
            /\ trace[files[i]] \in StatErrTraces
            /\ oc[files[i]] = NoOutcome
            /\ tgt[files[i]] = tgt0[files[i]]
            /\ Returned => trace[files[i]] = <<"recv", "stat", "Failed">>

C28_Witness ==
    /\ Returned
    /\ \E p \in Files : StatErrCase(p) /\ Class(p) = "Failed"
    /\ \E p \in Files : ~StatErrCase(p) /\ Class(p) = "Processed"

\* The steps of a task in the order the claim gives them.
StepOrder == <<"recv", "stat", "read", "call", "return", "extract", "write">>

\* The sequences that take some of the steps of s, in the order of s.
RECURSIVE SubSeqs(_)
SubSeqs(s) ==
    IF s = <<>> THEN {<<>>}
    ELSE LET r == SubSeqs(Tail(s)) IN r \cup {<<Head(s)>> \o t : t \in r}

\* The traces that take steps in that order, each at most once, and end with
\* at most one counter.
OrderedTraces ==
    SubSeqs(StepOrder) \cup {t \o <<c>> : t \in SubSeqs(StepOrder), c \in Counters}

\* Step e was taken for path p.
Took(p, e) == \E i \in 1..Len(trace[p]) : trace[p][i] = e

\* The last entry of the trace of p is e.
EndsWith(p, e) == trace[p] # <<>> /\ trace[p][Len(trace[p])] = e

\* Step e is in the sequence t.
In(t, e) == \E i \in 1..Len(t) : t[i] = e

\* The trace t fits the outcome of the read (read), whether the skip check
\* applies (check) and dry-run mode (dry).
LegalSteps(t, read, check, dry) ==
    /\ t # <<>> => t[1] = "recv"
    /\ In(t, "stat") <=> (check /\ Len(t) >= 2)
    /\ In(t, "read") <=> read # "?"
    /\ In(t, "call") => (read = "ok" /\ ~dry)
    /\ read = "err" => (t[Len(t)] = "Failed" /\ ~In(t, "call"))
    /\ (dry /\ read = "ok") => t[Len(t)] = "DryRunHits"

\* The ordered traces with the read outcome and the modes they fit.
LegalTraces ==
    {x \in OrderedTraces \X {"?", "ok", "err"} \X BOOLEAN \X BOOLEAN :
        LegalSteps(x[1], x[2], x[3], x[4])}

\* C29: the steps of a task come in the order skip check, source read,
\* dry-run short-circuit, backend call, extraction, persist: a failed read is
\* counted Failed also in dry-run mode, a task whose target exists with
\* overwrite off is Skipped without its source being looked at, and the
\* backend is only called with the content of a source that was read.
C29_StepOrder ==
    /\ \A p \in PathSet :
          <<trace[p], oc[p].read, ~cfg.Overwrite /\ ~cfg.DryRun, cfg.DryRun>> \in LegalTraces
    /\ (~cfg.Overwrite /\ ~cfg.DryRun) =>
          \A i \in 1..Len(files) : tgt0[files[i]].st = "file" =>
              /\ oc[files[i]].read = "?"
              /\ trace[files[i]] \in {<<>>, <<"recv">>, <<"recv", "stat", "Skipped">>}
    /\ \A w \in Workers : pc[w] = "translate" =>
          (oc[task[w]].read = "ok" /\ held[w] = SrcContent(task[w]))

C29_Witness ==
    /\ Returned
    /\ cfg.DryRun
    /\ Len(files) = 2
    /\ trace[files[1]] = <<"recv", "read", "Failed">>
    /\ trace[files[2]] = <<"recv", "read", "DryRunHits">>
    /\ tgt0[files[1]].st = "file"

\* C30: when ProcessFiles gets a nil translator while dry-run is off, every
\* task that reaches the backend step is counted Failed, no call is
\* attempted and no worker crashes; tasks the skip check ends are Skipped.
C30_NilTranslatorFailsTasks ==
    (trans = "nil" /\ ~cfg.DryRun) =>
        /\ \A p \in PathSet : ~Took(p, "call") /\ oc[p].backend = NoAnswer
        /\ \A w \in Workers : pc[w] \in {"unborn", "recv", "skipcheck", "read", "exited"}
        /\ tgt = tgt0
        /\ \A p \in Files :
              /\ ~EndsWith(p, "Processed") /\ ~EndsWith(p, "DryRunHits")
              /\ oc[p].read = "ok" =>
                    trace[p] \in {<<"recv", "read", "Failed">>,
                                  <<"recv", "stat", "read", "Failed">>}
        /\ Returned =>
              /\ \A p \in Files :
                    IF SkipCase(p) THEN EndsWith(p, "Skipped") ELSE EndsWith(p, "Failed")
              /\ \A w \in StartedWorkers : pc[w] = "exited"

C30_Witness ==
    /\ trans = "nil"
    /\ ~cfg.DryRun
    /\ Returned
    /\ cfg.Concurrency = 1
    /\ Len(files) = 2
    /\ trace[files[1]] = <<"recv", "stat", "read", "Failed">>
    /\ Class(files[2]) = "Skipped"

\* C31: Processed is incremented exactly when WriteFile returns nil and
\* Failed when it returns an error; so when, with overwrite off, a file
\* appears at the target path after the skip check and before WriteFile's
\* own check, WriteFile skips the write, the file that appeared is left as
\* it is and the task is counted Processed, not Skipped.
C31_ProcessedIffWriteFileNil ==
    \A p \in PathSet :
        /\ oc[p].write \in {"ok", "exists"} <=> EndsWith(p, "Processed")
        /\ oc[p].write \in {"staterr", "mkdir", "open", "short"} =>
              trace[p][Len(trace[p]) - 1] = "write" /\ EndsWith(p, "Failed")
        /\ oc[p].write = "exists" =>
              /\ ~cfg.Overwrite
              /\ tgt0[p] = Absent
              /\ tgt[p] = File(OtherContent)
              /\ Took(p, "stat")
              /\ ~EndsWith(p, "Skipped")

C31_Witness ==
    /\ Returned
    /\ Len(files) = 2
    /\ oc[files[1]].write = "exists"
    /\ tgt[files[1]] = File(OtherContent)
    /\ stats.Processed = 2
    /\ stats.Skipped = 0
    /\ oc[files[2]].write = "ok"

\* A task has been received by a worker.
SomeReceived == \E i \in 1..Len(files) : trace[files[i]] # <<>>

Counted(s) == s.Processed + s.Skipped + s.Failed + s.DryRunHits

\* C33: in every step each of Processed, Skipped, Failed and DryRunHits
\* stays or grows by one (and at most one of them grows), TotalFiles keeps
\* the value len(files) it got before any worker started, and the sum of the
\* four counters never exceeds TotalFiles.
C33_CountersOnlyGrow ==
    /\ [][/\ \A c \in Counters : stats'[c] \in {stats[c], stats[c] + 1}
          /\ Counted(stats') <= Counted(stats) + 1
          /\ stats'.TotalFiles = stats.TotalFiles]_vars
    /\ [](stats.TotalFiles = Len(files) /\ Counted(stats) <= stats.TotalFiles)

C33_Witness ==
    /\ mainPC = "wait"
    /\ stats.TotalFiles = 2
    /\ stats.Failed = 1
    /\ stats.Processed = 1
    /\ \E w \in Workers : pc[w] = "recv"

\* C34: under fair scheduling, with every backend call and file-system
\* operation returning, for any number of files and any positive worker
\* count every worker eventually exits and ProcessFiles eventually returns.
C34_EventuallyReturns ==
    <>(Returned /\ \A w \in 1..cfg.Concurrency : pc[w] = "exited")

C34_Witness ==
    /\ Returned
    /\ cfg.Concurrency = 2
    /\ Len(files) = 1
    /\ pc[1] = "exited"
    /\ pc[2] = "exited"
    /\ trace[files[1]] # <<>>

\* C35: the skip check is not run in dry-run mode or with overwrite on: in
\* dry-run mode Skipped and Processed stay 0 for the whole run even when
\* every target file exists, and with overwrite on Skipped stays 0.
C35_SkipCheckOnlyWhenBothOff ==
    /\ cfg.DryRun => (stats.Skipped = 0 /\ stats.Processed = 0)
    /\ cfg.Overwrite => stats.Skipped = 0
    /\ (cfg.DryRun \/ cfg.Overwrite) =>
          /\ \A w \in Workers : pc[w] # "skipcheck"
          /\ \A p \in PathSet : ~Took(p, "stat")

C35_Witness ==
    /\ Returned
    /\ cfg.DryRun
    /\ ~cfg.Overwrite
    /\ Len(files) = 2
    /\ \A i \in 1..2 : tgt0[files[i]].st = "file"
    /\ stats.DryRunHits = 2

\* The source read, the backend call and the extraction of p succeeded.
PipelineSucceeded(p) ==
    /\ oc[p].read = "ok"
    /\ oc[p].backend.kind = "ok"
    /\ ~ExtractTranslation(oc[p].backend.raw).err

\* C36: a target file is created or modified only by a task whose source
\* read, backend call and extraction succeeded in this run, and it then
\* holds exactly the trimmed text extracted from that task's own backend
\* output; a task counted Skipped or DryRunHits changes nothing.
C36_OnlyOwnExtractedText ==
    /\ \A p \in PathSet : tgt[p] # tgt0[p] =>
          /\ PipelineSucceeded(p)
          /\ tgt[p] = File(Extracted(p))
    /\ dirs # dirs0 => \E p \in PathSet : PipelineSucceeded(p) /\ Took(p, "write")
    /\ \A p \in PathSet : (EndsWith(p, "Skipped") \/ EndsWith(p, "DryRunHits")) =>
          (tgt[p] = tgt0[p] /\ oc[p].write = "?")

\* A write that failed midway left a target that is not the extracted text.
C36_Witness ==
    \E p \in Files :
        /\ PipelineSucceeded(p)
        /\ oc[p].write = "short"
        /\ tgt[p] # tgt0[p]
        /\ tgt[p] # File(Extracted(p))
        /\ EndsWith(p, "Failed")

\* The process was ended by the signal handler.
Killed == mainPC = "killed"

Distinct(q) == \A i, j \in 1..Len(q) : i # j => q[i] # q[j]

\* C38: the relative paths one call of FindMarkdownFiles returns are
\* pairwise distinct, also when files of the same name lie in different
\* directories, so no two tasks of a run have the same target path.
C38_PathsDistinct ==
    ret # <<>> =>
        /\ Distinct(ret[1].files)
        /\ Cardinality(Range(ret[1].files)) = Len(ret[1].files)

C38_Witness ==
    /\ ret # <<>>
    /\ ~ret[1].err
    /\ <<NameD, NameE>> \in Range(ret[1].files)
    /\ <<NameS, NameE>> \in Range(ret[1].files)
    /\ <<NameA>> \in Range(ret[1].files)

\* The position of the first opening marker of s, or 0.
FirstOpen(s) ==
    IF Occurs(OpenTag, s)
    THEN CHOOSE i \in 1..Len(s) : s[i] = OpenTag /\ \A k \in 1..(i - 1) : s[k] # OpenTag
    ELSE 0

\* The position of the first closing marker of s after position i, or 0.
FirstCloseAfter(s, i) ==
    IF \E j \in (i + 1)..Len(s) : s[j] = CloseTag
    THEN CHOOSE j \in (i + 1)..Len(s) :
            s[j] = CloseTag /\ \A k \in (i + 1)..(j - 1) : s[k] # CloseTag
    ELSE 0

\* The number of positions of s that hold tok.
Times(tok, s) == Cardinality({k \in 1..Len(s) : s[k] = tok})

\* C39: the match is non-greedy and takes the first span: whatever markers
\* follow, the result is the trimmed text between the first start marker
\* and the first end marker after it, line breaks included, and it is an
\* error exactly when there is no such pair.
C39_FirstSpanNonGreedy ==
    ret # <<>> =>
        LET i == FirstOpen(arg.raw)
            j == IF i = 0 THEN 0 ELSE FirstCloseAfter(arg.raw, i)
        IN  IF j = 0 THEN ret[1].err
            ELSE /\ ~ret[1].err
                 /\ ret[1].text = TrimSpace(SubSeq(arg.raw, i + 1, j - 1))
                 /\ ~Occurs(CloseTag, ret[1].text)

C39_Witness ==
    /\ ret # <<>>
    /\ Times(CloseTag, arg.raw) = 2
    /\ ret[1] = [err |-> FALSE, text |-> <<"x", "\n", "x">>]

\* The result of ExtractTranslation without the second search.
SingleSearch(s) ==
    LET matches == FindStringSubmatch(s)
    IN  IF Len(matches) < 2 THEN [err |-> TRUE, text |-> <<>>]
        ELSE [err |-> FALSE, text |-> TrimSpace(matches[2])]

\* C40: the second search, on the trimmed input, never changes the outcome:
\* for every raw output the result is that of the single search on the
\* untrimmed input, and when the first search finds no span the trimmed
\* input has none either.
C40_RetryChangesNothing ==
    ret # <<>> =>
        /\ ret[1] = SingleSearch(arg.raw)
        /\ FindStringSubmatch(arg.raw) = <<>> =>
              FindStringSubmatch(TrimSpace(arg.raw)) = <<>>

C40_Witness ==
    /\ ret # <<>>
    /\ ret[1].err
    /\ TrimSpace(arg.raw) # arg.raw
    /\ Occurs(OpenTag, arg.raw)
    /\ Head(arg.raw) \in Space

====
